---- MODULE Spec2Model ----
(***************************************************************************)
(* The QR ticket service of backend/app: the qrcodes and qr_stats tables,  *)
(* the module-level statistics of main.py, and the request handlers        *)
(* create_qr_code_endpoint, update_qr_code_status and check_qr_code.       *)
(* Every handler is a coroutine: one action of the model is the code that  *)
(* runs between two awaits on the database (or on the Telegram API), so    *)
(* handlers of different requests interleave exactly at those awaits.      *)
(* Each request owns an AsyncSession: objects it has loaded keep the       *)
(* values read at load time until the handler refreshes them, and a commit *)
(* writes only the columns the handler changed.                            *)
(* The Telegram bot of telegram_bot/bot.py is a process of its own, with   *)
(* its admin login dialog and the commands it guards.                      *)
(***************************************************************************)
EXTENDS Integers, Sequences, FiniteSets, TLC

(* ------------------------------ bounds -------------------------------- *)

\* Concurrent request slots (handlers in flight or holding a response).
MaxReq == 2

\* Requests begun in one behaviour; caps the clock and the counters.
MaxOps == 4

\* Identifiers a request may name; larger than the number of owners, so
\* that an identifier of no ticket always exists.
MaxIds == 3

(* --------------------------- value domains ---------------------------- *)

\* A nullable DateTime column that holds NULL.
NULL == 0

\* QRCodeStatus
CREATED == "created"
ISSUED == "issued"
USED == "used"
INVALID == "invalid"
QRCodeStatus == {CREATED, ISSUED, USED, INVALID}

\* Python's None for an optional string (and the empty string: both falsy).
None == ""

\* QRCodeCreate.telegram_id values
Owners == {"u1", "u2"}
FirstNames == {"Ann"}
Usernames == {None, "ann"}

\* admin_telegram_id values of a check_qr request body (None: absent)
Admins == {"a1", "a2"}
AdminInputs == {None} \cup Admins

\* bot.py: the credentials, the states of the login dialog, and the users
\* and messages of the chat.
ADMIN_LOGIN == "admin"
ADMIN_PASSWORD == "supersecret"
LOGIN == 0
PASSWORD == 1
END == -1
Users == {1, 2}
Texts == {ADMIN_LOGIN, ADMIN_PASSWORD, "guess"}

Procs == 1..MaxReq
QrIds == 1..MaxIds

VARIABLES
    qrcodes,        \* table qrcodes: row i has primary key i
    qr_stats,       \* table qr_stats: a sequence of rows
    admin_stats,    \* main.admin_stats: admin -> [success, fail], partial
    global_success, \* main.global_success
    global_fail,    \* main.global_fail
    clock,          \* datetime.utcnow(), advanced by every reading
    started,        \* the startup hook has run
    nOps,           \* requests begun so far
    req,            \* per slot: the handler's position and its locals
    telegram_up,    \* the Telegram Bot API answers a post (else it raises)
    store_up,       \* the database answers a statement (else it raises)
    authorized_admins, \* bot.authorized_admins: the user ids logged in
    conversation,   \* adminlogin_conv: the state of each user's dialog
    user_data,      \* context.user_data['admin_login'] of each user
    update,         \* the update the bot handled last: who sent what
    reply           \* what the bot answered to it ("none": no handler)

vars == <<qrcodes, qr_stats, admin_stats, global_success, global_fail,
          clock, started, nOps, req, telegram_up, store_up,
          authorized_admins, conversation, user_data, update, reply>>

\* What the service depends on and does not control.
env == <<telegram_up, store_up>>

\* The state of the Telegram bot (telegram_bot/bot.py), a process of its own.
bot == <<authorized_admins, conversation, user_data, update, reply>>

\* The state of the backend process and of what it depends on.
backend == <<qrcodes, qr_stats, admin_stats, global_success, global_fail,
             clock, started, nOps, req, telegram_up, store_up>>

(* ------------------------------ the store ----------------------------- *)

\* result.scalars().first(): the first row of a result, or nothing.
First(rows) == IF rows = <<>> THEN <<>> ELSE <<Head(rows)>>

\* select(...).filter(...) then first(): of the rows whose index is in
\* `matching`, the one with the lowest primary key, or nothing.
FirstOf(table, matching) ==
    IF matching = {} THEN <<>>
    ELSE <<table[CHOOSE i \in matching : \A j \in matching : i <= j]>>

\* crud.get_qr_code
get_qr_code(table, qr_code_id) ==
    FirstOf(table, {i \in DOMAIN table : table[i].id = qr_code_id})

\* crud.get_qr_code_by_telegram_id
get_qr_code_by_telegram_id(table, telegram_id) ==
    FirstOf(table, {i \in DOMAIN table : table[i].telegram_id = telegram_id})

\* The unique index on qrcodes.telegram_id: an INSERT of a second row with
\* the same telegram_id is refused (IntegrityError).
\* (Faulty variant: no unique index, every insert is accepted.)
UniqueViolationOff(table, telegram_id) == FALSE
UniqueViolation(table, telegram_id) ==
    \E i \in DOMAIN table : table[i].telegram_id = telegram_id

\* models.QRCode(...) as create_qr_code builds it, with the column defaults.
\* (Faulty variant: status and issued_at are left to the column defaults.)
NewQRCodeByDefaults(id, qr_code, now) ==
    [id |-> id, status |-> CREATED, telegram_id |-> qr_code.telegram_id,
     user_first_name |-> qr_code.user_first_name,
     user_username |-> qr_code.user_username,
     created_at |-> now, issued_at |-> NULL, used_at |-> NULL]
NewQRCode(id, qr_code, now) ==
    [id |-> id, status |-> ISSUED, telegram_id |-> qr_code.telegram_id,
     user_first_name |-> qr_code.user_first_name,
     user_username |-> qr_code.user_username,
     created_at |-> now, issued_at |-> now, used_at |-> NULL]

\* create_qr_code when the owner already has a ticket: the table is left as
\* it is and the existing row is returned.
\* (Faulty variant: the existing ticket is re-issued with the new handle.)
OnExistingReissue(table, existing, qr_code, now) ==
    [table EXCEPT ![existing.id].issued_at = now,
                  ![existing.id].user_username = qr_code.user_username]
OnExisting(table, existing, qr_code, now) == table

(* ------------------------------ requests ------------------------------ *)

NoArgs ==
    [telegram_id |-> None, user_first_name |-> None, user_username |-> None,
     qr_code_id |-> 0, status |-> CREATED, admin_telegram_id |-> None]

NoResponse == [status_code |-> 0, result |-> "none", id |-> 0, detail |-> <<>>]

\* undelivered: the messages of this handler that Telegram did not take;
\* message: the text formatted for the admin, while its send is awaited.
Idle ==
    [pc |-> "idle", op |-> "none", args |-> NoArgs, db_qr_code |-> <<>>,
     stats |-> <<>>, outcome |-> "none", undelivered |-> 0, message |-> <<>>,
     response |-> NoResponse]

InFlight(r) == req[r].pc \notin {"idle", "done"}

\* response_model=schemas.QRCode: the row's fields, here its identifier.
QRCodeResponse(id) ==
    [status_code |-> 200, result |-> "QRCode", id |-> id, detail |-> <<>>]

\* An HTTPException, or the 500 of an exception nothing catches.
ErrorResponse(status_code, result) ==
    [status_code |-> status_code, result |-> result, id |-> 0, detail |-> <<>>]

\* A handler returns: its session is closed and its locals are gone; the
\* slot keeps the request and the response until the client has it.
Respond(rq, r, response) ==
    [rq EXCEPT ![r] = [Idle EXCEPT !.pc = "done", !.op = rq[r].op,
                                   !.args = rq[r].args, !.response = response]]

Init ==
    /\ qrcodes = <<>>
    /\ qr_stats = <<>>
    /\ admin_stats = [a \in {} |-> 0]
    /\ global_success = 0
    /\ global_fail = 0
    /\ clock = 1
    /\ started = FALSE
    /\ nOps = 0
    /\ req = [r \in Procs |-> Idle]
    /\ telegram_up = TRUE
    /\ store_up = TRUE
    /\ authorized_admins = {}
    /\ conversation = [u \in Users |-> END]
    /\ user_data = [u \in Users |-> None]
    /\ update = [user |-> 0, text |-> None]
    /\ reply = "none"

\* startup's initialisation of the statistics: a row of zeros is added if
\* the table has none.
\* (Faulty variant: the row is added without looking.)
InitStatsUnconditional(table) ==
    Append(table, [success_count |-> 0, fail_count |-> 0])
InitStats(table) ==
    IF First(table) = <<>>
    THEN Append(table, [success_count |-> 0, fail_count |-> 0])
    ELSE table

\* main.startup: create the tables, and the statistics row if there is none.
Startup ==
    /\ ~started
    /\ store_up
    /\ started' = TRUE
    /\ qr_stats' = InitStats(qr_stats)
    /\ UNCHANGED <<qrcodes, admin_stats, global_success, global_fail, clock,
                   nOps, req, env, bot>>

\* A request arrives and its handler starts.
Begin(r, op, pc, args) ==
    /\ started
    /\ req[r].pc = "idle"
    /\ nOps < MaxOps
    /\ nOps' = nOps + 1
    /\ req' = [req EXCEPT ![r] = [Idle EXCEPT !.pc = pc, !.op = op, !.args = args]]
    /\ UNCHANGED <<qrcodes, qr_stats, admin_stats, global_success, global_fail,
                   clock, started, env, bot>>

\* The response has been delivered; the slot is free again.
Return(r) ==
    /\ req[r].pc = "done"
    /\ req' = [req EXCEPT ![r] = Idle]
    /\ UNCHANGED <<qrcodes, qr_stats, admin_stats, global_success, global_fail,
                   clock, started, env, bot, nOps>>

\* The positions at which a handler awaits the database.
StorePcs == {"lookup", "insert", "get", "write", "load", "stats", "update", "commit"}

\* What the caller gets when a statement raises: no handler catches it, so
\* the exception leaves the handler and the server answers 500.
\* (Faulty variant: a failed load is taken for a ticket that does not exist.)
OnStoreErrorAsMissing(pc) ==
    IF pc = "load"
    THEN [status_code |-> 404, result |-> "error", id |-> 0,
          detail |-> <<"code not found">>]
    ELSE ErrorResponse(500, "StoreError")
OnStoreError(pc) == ErrorResponse(500, "StoreError")

\* The statement a handler awaits raises (the database is down): the
\* statement has no effect and the handler ends there.
StoreError(r) ==
    /\ ~store_up
    /\ req[r].pc \in StorePcs
    /\ req' = Respond(req, r, OnStoreError(req[r].pc))
    /\ UNCHANGED <<qrcodes, qr_stats, admin_stats, global_success, global_fail,
                   clock, started, env, bot, nOps>>

(* ---------------- POST /qrcodes/ : crud.create_qr_code ---------------- *)

BeginCreate(r) ==
    \E o \in Owners, f \in FirstNames, u \in Usernames :
        Begin(r, "create", "lookup",
              [NoArgs EXCEPT !.telegram_id = o, !.user_first_name = f,
                             !.user_username = u])

\* existing_qr_code = await get_qr_code_by_telegram_id(...); return it if any.
CreateLookup(r) ==
    /\ req[r].pc = "lookup"
    /\ store_up
    /\ LET existing == get_qr_code_by_telegram_id(qrcodes, req[r].args.telegram_id)
       IN  IF existing # <<>>
           THEN /\ qrcodes' = OnExisting(qrcodes, existing[1], req[r].args, clock)
                /\ req' = Respond(req, r, QRCodeResponse(existing[1].id))
           ELSE /\ qrcodes' = qrcodes
                /\ req' = [req EXCEPT ![r].pc = "insert"]
    /\ UNCHANGED <<qr_stats, admin_stats, global_success, global_fail, clock,
                   started, env, bot, nOps>>

\* db.add(db_qr_code); await db.commit(); await db.refresh(db_qr_code)
CreateInsert(r) ==
    /\ req[r].pc = "insert"
    /\ store_up
    /\ Len(qrcodes) < MaxIds
    /\ IF UniqueViolation(qrcodes, req[r].args.telegram_id)
       THEN /\ req' = Respond(req, r, ErrorResponse(500, "IntegrityError"))
            /\ UNCHANGED <<qrcodes, clock>>
       ELSE LET row == NewQRCode(Len(qrcodes) + 1, req[r].args, clock)
            IN  /\ qrcodes' = Append(qrcodes, row)
                /\ clock' = clock + 1
                /\ req' = Respond(req, r, QRCodeResponse(row.id))
    /\ UNCHANGED <<qr_stats, admin_stats, global_success, global_fail,
                   started, env, bot, nOps>>

(* ------- PUT /qrcodes/{id}/status : crud.update_qr_code_status -------- *)

\* db_qr_code.status = status, the timestamp of the new status, commit.
\* The UPDATE carries the columns whose value the handler changed: status
\* (when it differs from the value this session loaded) and the timestamp.
\* (Faulty variant: the UPDATE has no WHERE clause and writes every row.)
ApplyStatusEveryRow(table, loaded, status, now) ==
    [i \in DOMAIN table |->
        [table[i] EXCEPT !.status = status,
                         !.issued_at = IF status = ISSUED THEN now ELSE @,
                         !.used_at = IF status = USED THEN now ELSE @]]
ApplyStatus(table, loaded, status, now) ==
    [table EXCEPT ![loaded.id] =
        [@ EXCEPT !.status = IF status # loaded.status THEN status ELSE @,
                  !.issued_at = IF status = ISSUED THEN now ELSE @,
                  !.used_at = IF status = USED THEN now ELSE @]]

BeginPut(r) ==
    \E i \in QrIds, s \in QRCodeStatus :
        Begin(r, "put", "get", [NoArgs EXCEPT !.qr_code_id = i, !.status = s])

\* db_qr_code = await get_qr_code(db, qr_code_id); 404 if there is none.
PutGet(r) ==
    /\ req[r].pc = "get"
    /\ store_up
    /\ LET found == get_qr_code(qrcodes, req[r].args.qr_code_id)
       IN  IF found = <<>>
           THEN req' = Respond(req, r, ErrorResponse(404, "NotFound"))
           ELSE req' = [req EXCEPT ![r].pc = "write", ![r].db_qr_code = found]
    /\ UNCHANGED <<qrcodes, qr_stats, admin_stats, global_success, global_fail,
                   clock, started, env, bot, nOps>>

\* await db.commit(); await db.refresh(db_qr_code); return db_qr_code
PutWrite(r) ==
    /\ req[r].pc = "write"
    /\ store_up
    /\ qrcodes' = ApplyStatus(qrcodes, req[r].db_qr_code[1], req[r].args.status, clock)
    /\ clock' = clock + 1
    /\ req' = Respond(req, r, QRCodeResponse(req[r].args.qr_code_id))
    /\ UNCHANGED <<qr_stats, admin_stats, global_success, global_fail,
                   started, env, bot, nOps>>

(* ------------- POST /check_qr/{id} : main.check_qr_code --------------- *)

\* The branch check_qr_code takes for the ticket object it holds.
\* (Faulty variants: a used ticket falls through to the last branch; a used
\* ticket is redeemed again.)
OutcomeUsedAsInvalid(db_qr_code) ==
    IF db_qr_code = <<>> THEN "NotFound"
    ELSE IF db_qr_code[1].status = ISSUED THEN "Success"
    ELSE "InvalidState"
OutcomeReplay(db_qr_code) ==
    IF db_qr_code = <<>> THEN "NotFound"
    ELSE IF db_qr_code[1].status \in {ISSUED, USED} THEN "Success"
    ELSE "InvalidState"
Outcome(db_qr_code) ==
    IF db_qr_code = <<>> THEN "NotFound"
    ELSE IF db_qr_code[1].status = USED THEN "AlreadyUsed"
    ELSE IF db_qr_code[1].status = ISSUED THEN "Success"
    ELSE "InvalidState"

\* The counter an outcome is tallied under.
CounterOf(outcome) == IF outcome = "Success" THEN "success" ELSE "fail"
ColumnOf(outcome) == IF outcome = "Success" THEN "success_count" ELSE "fail_count"

\* user_info: the first name, then the handle if there is one.
UserInfo(db_qr_code) ==
    <<db_qr_code.user_first_name>> \o
    (IF db_qr_code.user_username # None
     THEN <<" (@", db_qr_code.user_username, ")">> ELSE <<>>)

\* The JSONResponse of each branch: the status code, the "status" field and
\* the message (its fixed text, then what the branch formats into it).
ResponseOf(outcome, db_qr_code) ==
    CASE outcome = "NotFound" ->
            [status_code |-> 404, result |-> "error", id |-> 0,
             detail |-> <<"code not found">>]
      [] outcome = "AlreadyUsed" ->
            [status_code |-> 400, result |-> "error", id |-> 0,
             detail |-> <<"code already used">>]
      [] outcome = "Success" ->
            [status_code |-> 200, result |-> "ok", id |-> 0,
             detail |-> <<"success">> \o UserInfo(db_qr_code[1])]
      [] OTHER ->
            [status_code |-> 400, result |-> "error", id |-> 0,
             detail |-> <<"invalid status", db_qr_code[1].status>>]

\* stats.success_count += 1 / stats.fail_count += 1 on the loaded object.
IncrementStats(stats, outcome) ==
    [stats EXCEPT ![ColumnOf(outcome)] = @ + 1]

\* await db.commit() of the statistics: the changed column is written with
\* the value the object holds.
CommitStats(table, stats, outcome) ==
    [table EXCEPT ![stats.id][ColumnOf(outcome)] = stats[ColumnOf(outcome)]]

\* (Faulty variant: the branch of an invalid status counts the admin's
\* failure but adds to the wrong total, global_success.)
TallyWrongTotal(r, rq) ==
    LET a == rq[r].args.admin_telegram_id
        c == CounterOf(rq[r].outcome)
        g == IF rq[r].outcome = "InvalidState" THEN "success" ELSE c
    IN  /\ admin_stats' = [admin_stats EXCEPT ![a][c] = @ + 1]
        /\ global_success' = global_success + (IF g = "success" THEN 1 ELSE 0)
        /\ global_fail' = global_fail + (IF g = "fail" THEN 1 ELSE 0)
        /\ req' = [rq EXCEPT ![r].pc = "commit",
                       ![r].stats = <<IncrementStats(rq[r].stats[1], rq[r].outcome)>>]

\* The synchronous tally of one branch, run only for a request that names an
\* admin: admin_stats, the global totals and the loaded stats object.
Tally(r, rq) ==
    LET a == rq[r].args.admin_telegram_id
        c == CounterOf(rq[r].outcome)
    IN  /\ admin_stats' = [admin_stats EXCEPT ![a][c] = @ + 1]
        /\ global_success' = global_success + (IF c = "success" THEN 1 ELSE 0)
        /\ global_fail' = global_fail + (IF c = "fail" THEN 1 ELSE 0)
        /\ req' = [rq EXCEPT ![r].pc = "commit",
                       ![r].stats = <<IncrementStats(rq[r].stats[1], rq[r].outcome)>>]

\* The tally if the request names an admin, else straight to the response.
TallyOrRespond(r, rq) ==
    IF rq[r].args.admin_telegram_id # None
    THEN Tally(r, rq)
    ELSE /\ req' = Respond(rq, r, ResponseOf(rq[r].outcome, rq[r].db_qr_code))
         /\ UNCHANGED <<admin_stats, global_success, global_fail>>

BeginRedeem(r) ==
    \E i \in QrIds, a \in AdminInputs :
        Begin(r, "redeem", "load",
              [NoArgs EXCEPT !.qr_code_id = i, !.admin_telegram_id = a])

\* db_qr_code = await crud.get_qr_code(...); the request body; the admin's
\* entry of admin_stats.
RedeemLoad(r) ==
    /\ req[r].pc = "load"
    /\ store_up
    /\ LET a == req[r].args.admin_telegram_id
       IN  admin_stats' =
               IF a # None /\ a \notin DOMAIN admin_stats
               THEN [x \in DOMAIN admin_stats \cup {a} |->
                        IF x = a THEN [success |-> 0, fail |-> 0]
                        ELSE admin_stats[x]]
               ELSE admin_stats
    /\ req' = [req EXCEPT ![r].pc = "stats",
                   ![r].db_qr_code = get_qr_code(qrcodes, req[r].args.qr_code_id)]
    /\ UNCHANGED <<qrcodes, qr_stats, global_success, global_fail, clock,
                   started, env, bot, nOps>>

\* stats = (await db.execute(select(QRStats))).scalars().first(), created if
\* there is none; then the branch on the ticket object, up to its first await.
RedeemStats(r) ==
    /\ req[r].pc = "stats"
    /\ store_up
    /\ qr_stats' = IF qr_stats = <<>>
                   THEN <<[success_count |-> 0, fail_count |-> 0]>>
                   ELSE qr_stats
    /\ LET row == Head(qr_stats')
           outcome == Outcome(req[r].db_qr_code)
           rq == [req EXCEPT ![r].outcome = outcome,
                             ![r].stats = <<[id |-> 1,
                                             success_count |-> row.success_count,
                                             fail_count |-> row.fail_count]>>]
       IN  CASE outcome = "AlreadyUsed" ->
                    /\ req' = [rq EXCEPT ![r].pc = "notify_user"]
                    /\ UNCHANGED <<admin_stats, global_success, global_fail>>
             [] outcome = "Success" ->
                    /\ req' = [rq EXCEPT ![r].pc = "update"]
                    /\ UNCHANGED <<admin_stats, global_success, global_fail>>
             [] OTHER -> TallyOrRespond(r, rq)
    /\ UNCHANGED <<qrcodes, clock, started, env, bot, nOps>>

\* await crud.update_qr_code_status(db, qr_code_id, USED): the session hands
\* back the object it already holds, the handler sets status and used_at,
\* commits and refreshes the object; then user_info is built.
RedeemUpdate(r) ==
    /\ req[r].pc = "update"
    /\ store_up
    /\ qrcodes' = ApplyStatus(qrcodes, req[r].db_qr_code[1], USED, clock)
    /\ clock' = clock + 1
    /\ req' = [req EXCEPT ![r].pc = "notify_user",
                   ![r].db_qr_code = get_qr_code(qrcodes', req[r].args.qr_code_id)]
    /\ UNCHANGED <<qr_stats, admin_stats, global_success, global_fail,
                   started, env, bot, nOps>>

\* send_telegram_message as its caller sees it: client.post either succeeds
\* or raises, and `except Exception: pass` swallows what it raises, so the
\* coroutine returns normally either way (as it does with no bot token).
\* (Faulty variant: no try/except, the exception reaches the caller.)
send_telegram_message_uncaught(up) == IF up THEN "sent" ELSE "raised"
send_telegram_message(up) == IF up THEN "sent" ELSE "dropped"

\* The handler's locals after a send that returned.
AfterSend(rq, r, sent) ==
    [rq EXCEPT ![r].undelivered = IF sent = "sent" THEN @ ELSE @ + 1]

\* await send_telegram_message(db_qr_code.telegram_id, ...) returns; then the
\* tally of the branch. An exception out of the send would end the handler.
RedeemNotifyUser(r) ==
    /\ req[r].pc = "notify_user"
    /\ LET sent == send_telegram_message(telegram_up)
       IN  IF sent = "raised"
           THEN /\ req' = Respond(req, r, ErrorResponse(500, "TelegramError"))
                /\ UNCHANGED <<admin_stats, global_success, global_fail>>
           ELSE TallyOrRespond(r, AfterSend(req, r, sent))
    /\ UNCHANGED <<qrcodes, qr_stats, clock, started, env, bot, nOps>>

\* The totals the admin's message carries: the f-string reads the module
\* globals when the call to send_telegram_message is built.
AdminMessage(success, fail) == <<[success |-> success, fail |-> fail]>>

\* await db.commit() after the tally; then the admin's message is formatted.
RedeemCommit(r) ==
    /\ req[r].pc = "commit"
    /\ store_up
    /\ qr_stats' = CommitStats(qr_stats, req[r].stats[1], req[r].outcome)
    /\ req' = [req EXCEPT ![r].pc = "notify_admin",
                          ![r].message = AdminMessage(global_success, global_fail)]
    /\ UNCHANGED <<qrcodes, admin_stats, global_success, global_fail, clock,
                   started, env, bot, nOps>>

\* await send_telegram_message(admin_telegram_id, ...) returns; the response.
RedeemNotifyAdmin(r) ==
    /\ req[r].pc = "notify_admin"
    /\ LET sent == send_telegram_message(telegram_up)
       IN  IF sent = "raised"
           THEN req' = Respond(req, r, ErrorResponse(500, "TelegramError"))
           ELSE req' = Respond(AfterSend(req, r, sent), r,
                               ResponseOf(req[r].outcome, req[r].db_qr_code))
    /\ UNCHANGED <<qrcodes, qr_stats, admin_stats, global_success, global_fail,
                   clock, started, env, bot, nOps>>

(* --------------------------- specifications --------------------------- *)

Next ==
    \/ Startup
    \/ \E r \in Procs : BeginCreate(r)
    \/ \E r \in Procs : CreateLookup(r)
    \/ \E r \in Procs : CreateInsert(r)
    \/ \E r \in Procs : BeginPut(r)
    \/ \E r \in Procs : PutGet(r)
    \/ \E r \in Procs : PutWrite(r)
    \/ \E r \in Procs : BeginRedeem(r)
    \/ \E r \in Procs : RedeemLoad(r)
    \/ \E r \in Procs : RedeemStats(r)
    \/ \E r \in Procs : RedeemUpdate(r)
    \/ \E r \in Procs : RedeemNotifyUser(r)
    \/ \E r \in Procs : RedeemCommit(r)
    \/ \E r \in Procs : RedeemNotifyAdmin(r)
    \/ \E r \in Procs : Return(r)

\* Any interleaving of the handlers at their awaits.
Spec == Init /\ [][Next]_vars

\* One request at a time: a handler starts only when no other is running.
Quiet == \A r \in Procs : ~InFlight(r)

NextSeq ==
    \/ Startup
    \/ \E r \in Procs : Quiet /\ BeginCreate(r)
    \/ \E r \in Procs : CreateLookup(r)
    \/ \E r \in Procs : CreateInsert(r)
    \/ \E r \in Procs : Quiet /\ BeginPut(r)
    \/ \E r \in Procs : PutGet(r)
    \/ \E r \in Procs : PutWrite(r)
    \/ \E r \in Procs : Quiet /\ BeginRedeem(r)
    \/ \E r \in Procs : RedeemLoad(r)
    \/ \E r \in Procs : RedeemStats(r)
    \/ \E r \in Procs : RedeemUpdate(r)
    \/ \E r \in Procs : RedeemNotifyUser(r)
    \/ \E r \in Procs : RedeemCommit(r)
    \/ \E r \in Procs : RedeemNotifyAdmin(r)
    \/ \E r \in Procs : Return(r)

SpecSeq == Init /\ [][NextSeq]_vars

\* The Telegram Bot API goes down or comes back, at any moment.
TelegramFlips ==
    /\ telegram_up' = ~telegram_up
    /\ UNCHANGED <<qrcodes, qr_stats, admin_stats, global_success, global_fail,
                   clock, started, nOps, req, store_up, bot>>

NextNotifier ==
    \/ Next
    \/ TelegramFlips

\* The server process is restarted (uvicorn runs with reload=True): the
\* handlers in flight and the module globals are gone, the tables stay, and
\* the startup hook runs again before any request is served.
Restart ==
    /\ started
    /\ started' = FALSE
    /\ admin_stats' = [a \in {} |-> 0]
    /\ global_success' = 0
    /\ global_fail' = 0
    /\ req' = [r \in Procs |-> Idle]
    /\ UNCHANGED <<qrcodes, qr_stats, clock, nOps, env, bot>>

NextRestart ==
    \/ Next
    \/ Restart

\* Any interleaving of the handlers, across restarts of the process.
SpecRestart == Init /\ [][NextRestart]_vars

\* The database goes down or comes back, at any moment.
StoreFlips ==
    /\ store_up' = ~store_up
    /\ UNCHANGED <<qrcodes, qr_stats, admin_stats, global_success, global_fail,
                   clock, started, nOps, req, telegram_up, bot>>

NextStore ==
    \/ NextSeq
    \/ StoreFlips
    \/ \E r \in Procs : StoreError(r)

\* Requests served one after another, with an unreliable database.
SpecStore == Init /\ [][NextStore]_vars

\* Any interleaving of the handlers, with an unreliable Telegram.
SpecNotifier == Init /\ [][NextNotifier]_vars

(* ------------------- telegram_bot/bot.py : the bot -------------------- *)

\* The bot handles one update at a time (run_polling, no concurrent
\* updates), so one action is one handler run on one update. The handlers
\* are tried in the order main() adds them: the command handlers of start,
\* get_qr, scan and stats, then the login dialog.

\* if login == ADMIN_LOGIN and password == ADMIN_PASSWORD
\* (Faulty variant: `or` in place of `and`.)
CredentialsEither(login, password) ==
    login = ADMIN_LOGIN \/ password = ADMIN_PASSWORD
Credentials(login, password) ==
    login = ADMIN_LOGIN /\ password = ADMIN_PASSWORD

\* A handler ran on the update `text` of user `u` and answered `answer`.
Handled(u, text, answer) ==
    /\ update' = [user |-> u, text |-> text]
    /\ reply' = answer
    /\ UNCHANGED backend

\* start: the greeting.
Start(u) ==
    /\ Handled(u, "/start", "greeting")
    /\ UNCHANGED <<authorized_admins, conversation, user_data>>

\* get_qr: the ticket's image from the backend, or an apology.
GetQr(u) ==
    /\ \E answer \in {"qr", "error"} : Handled(u, "/get_qr", answer)
    /\ UNCHANGED <<authorized_admins, conversation, user_data>>

\* scan_command: the scanner button, for a user in authorized_admins.
ScanCommand(u) ==
    /\ Handled(u, "/scan",
               IF u \notin authorized_admins THEN "denied" ELSE "scanner")
    /\ UNCHANGED <<authorized_admins, conversation, user_data>>

\* stats_command: the totals of GET /stats (or the error text when the
\* backend does not answer), for a user in authorized_admins.
StatsCommand(u) ==
    /\ IF u \notin authorized_admins
       THEN Handled(u, "/stats", "denied")
       ELSE \E answer \in {"stats", "stats_error"} : Handled(u, "/stats", answer)
    /\ UNCHANGED <<authorized_admins, conversation, user_data>>

\* adminlogin_start: the entry point, taken when the user has no dialog.
AdminloginStart(u) ==
    /\ conversation[u] = END
    /\ conversation' = [conversation EXCEPT ![u] = LOGIN]
    /\ Handled(u, "/adminlogin", "ask_login")
    /\ UNCHANGED <<authorized_admins, user_data>>

\* adminlogin_login: a text that is no command, in state LOGIN.
AdminloginLogin(u, text) ==
    /\ conversation[u] = LOGIN
    /\ user_data' = [user_data EXCEPT ![u] = text]
    /\ conversation' = [conversation EXCEPT ![u] = PASSWORD]
    /\ Handled(u, text, "ask_password")
    /\ UNCHANGED authorized_admins

\* adminlogin_password: a text that is no command, in state PASSWORD.
AdminloginPassword(u, text) ==
    /\ conversation[u] = PASSWORD
    /\ IF Credentials(user_data[u], text)
       THEN /\ authorized_admins' = authorized_admins \cup {u}
            /\ Handled(u, text, "authorized")
       ELSE /\ authorized_admins' = authorized_admins
            /\ Handled(u, text, "wrong")
    /\ conversation' = [conversation EXCEPT ![u] = END]
    /\ UNCHANGED user_data

\* adminlogin_cancel: the fallback /cancel, in a dialog.
AdminloginCancel(u) ==
    /\ conversation[u] # END
    /\ conversation' = [conversation EXCEPT ![u] = END]
    /\ Handled(u, "/cancel", "cancelled")
    /\ UNCHANGED <<authorized_admins, user_data>>

\* An update no handler takes: a text or /cancel outside a dialog, or
\* /adminlogin inside one (the entry point is not tried again).
Unhandled(u, text) ==
    /\ \/ text \in Texts \cup {"/cancel"} /\ conversation[u] = END
       \/ text = "/adminlogin" /\ conversation[u] # END
    /\ Handled(u, text, "none")
    /\ UNCHANGED <<authorized_admins, conversation, user_data>>

NextBot ==
    \/ \E u \in Users : Start(u)
    \/ \E u \in Users : GetQr(u)
    \/ \E u \in Users : ScanCommand(u)
    \/ \E u \in Users : StatsCommand(u)
    \/ \E u \in Users : AdminloginStart(u)
    \/ \E u \in Users, text \in Texts : AdminloginLogin(u, text)
    \/ \E u \in Users, text \in Texts : AdminloginPassword(u, text)
    \/ \E u \in Users : AdminloginCancel(u)
    \/ \E u \in Users, text \in Texts \cup {"/cancel", "/adminlogin"} :
          Unhandled(u, text)

\* The bot, serving its users' updates in any order.
SpecBot == Init /\ [][NextBot]_vars

(* ------------------------------- claims ------------------------------- *)

\* What the caller of check_qr observed, read off the response.
Redeemed(r) == req[r].op = "redeem" /\ req[r].pc = "done"
ObservedSuccess(r) == Redeemed(r) /\ req[r].response.status_code = 200
ObservedAlreadyUsed(r) ==
    Redeemed(r) /\ req[r].response.detail = <<"code already used">>
ObservedNotFound(r) == Redeemed(r) /\ req[r].response.status_code = 404
ObservedInvalidState(r) ==
    /\ Redeemed(r)
    /\ req[r].response.status_code = 400
    /\ Head(req[r].response.detail) = "invalid status"
NamesAdmin(r) == req[r].args.admin_telegram_id # None

\* Every request made so far has completed and its response is still held.
AllVisible == nOps = Cardinality({r \in Procs : req[r].pc = "done"})

\* C1: of the check_qr calls on one ticket at most one observes Success; in
\* a run of a ticket's issuance and two check_qr calls on it (and no other
\* request), the two calls never both observe Success.
C1_AtMostOneSuccess ==
    \A r1, r2 \in Procs :
        (/\ r1 # r2
         /\ nOps = 3
         /\ Len(qrcodes) = 1
         /\ Redeemed(r1) /\ Redeemed(r2)
         /\ req[r1].args.qr_code_id = req[r2].args.qr_code_id)
        => ~(ObservedSuccess(r1) /\ ObservedSuccess(r2))

\* C2: no increment of the persisted counters is lost. (a) Two tickets are
\* issued and each is redeemed once, by requests that name an admin: when
\* both have returned Success, success_count = 2 and fail_count = 0.
\* (b) One ticket is issued and redeemed (tallied once), then two replays
\* that name an admin return AlreadyUsed: success_count = 1, fail_count = 2.
C2_NoLostUpdate ==
    \A r1, r2 \in Procs :
        (r1 # r2 /\ nOps = 4 /\ NamesAdmin(r1) /\ NamesAdmin(r2)) =>
            /\ (/\ Len(qrcodes) = 2
                /\ ObservedSuccess(r1) /\ ObservedSuccess(r2)
                /\ req[r1].args.qr_code_id # req[r2].args.qr_code_id)
               => (/\ qr_stats[1].success_count = 2
                   /\ qr_stats[1].fail_count = 0)
            /\ (/\ Len(qrcodes) = 1
                /\ global_success = 1
                /\ ObservedAlreadyUsed(r1) /\ ObservedAlreadyUsed(r2))
               => (/\ qr_stats[1].success_count = 1
                   /\ qr_stats[1].fail_count = 2)

\* C3: run one after another, every check_qr attempt adds one to exactly one
\* persisted counter: while all requests made so far are still visible as
\* responses, success_count is the number of Success responses and
\* fail_count the number of the other check_qr responses.
C3_EveryAttemptCounted ==
    AllVisible /\ started =>
        /\ qr_stats[1].success_count =
               Cardinality({r \in Procs : ObservedSuccess(r)})
        /\ qr_stats[1].fail_count =
               Cardinality({r \in Procs : Redeemed(r) /\ ~ObservedSuccess(r)})

\* The same, for the requests that name an admin (not a claim: the part of C3
\* the code does keep).
C3_AdminAttemptsCounted ==
    (AllVisible /\ started /\ \A r \in Procs : Redeemed(r) => NamesAdmin(r))
        => C3_EveryAttemptCounted

\* What create_qr_code_endpoint returned: a ticket, to the request's owner.
IssuedTo(r, o) ==
    /\ req[r].op = "create" /\ req[r].pc = "done"
    /\ req[r].response.status_code = 200
    /\ req[r].args.telegram_id = o

\* Any two tickets returned for one owner are the same ticket, and it is
\* that owner's.
SameTicketPerOwner ==
    \A o \in Owners : \A r1, r2 \in Procs :
        IssuedTo(r1, o) /\ IssuedTo(r2, o) =>
            /\ req[r1].response.id = req[r2].response.id
            /\ req[r1].response.id \in DOMAIN qrcodes
            /\ qrcodes[req[r1].response.id].telegram_id = o

\* C4: create_qr_code is idempotent per owner: every call for an owner
\* returns the same ticket identifier, and a call that finds the owner's
\* ticket adds no row and changes no field of any row (issued_at included),
\* whatever display info it carries.
C4_IssueOrFetchIdempotent ==
    [][/\ SameTicketPerOwner'
       /\ \A r \in Procs :
            (req[r].pc = "lookup" /\ req'[r].pc = "done") =>
                /\ qrcodes' = qrcodes
                /\ \E i \in DOMAIN qrcodes :
                      /\ qrcodes[i].telegram_id = req[r].args.telegram_id
                      /\ req'[r].response.id = i]_vars

\* C4's case: an owner's second call, with another handle than the first,
\* got the ticket of the first call, which still has the first handle.
C4_Witness ==
    \E o \in Owners : \E r1, r2 \in Procs :
        /\ r1 # r2 /\ IssuedTo(r1, o) /\ IssuedTo(r2, o)
        /\ req[r1].args.user_username # req[r2].args.user_username
        /\ qrcodes[req[r2].response.id].user_username = req[r1].args.user_username
        /\ qrcodes[req[r2].response.id].issued_at = qrcodes[req[r2].response.id].created_at

\* C5: of two concurrent first-time create_qr_code calls for one owner, the
\* one that loses the race returns the winner's ticket and does not fail:
\* every create_qr_code call ends with the owner's ticket.
C5_RaceLoserFetches ==
    \A r \in Procs :
        (req[r].op = "create" /\ req[r].pc = "done") =>
            IssuedTo(r, req[r].args.telegram_id)

\* C6: at most one ticket exists per owner (telegram_id).
C6_OneTicketPerOwner ==
    \A i, j \in DOMAIN qrcodes :
        qrcodes[i].telegram_id = qrcodes[j].telegram_id => i = j

\* C6's case: two first-time calls for one owner raced, one row was
\* inserted and the other insert was refused.
C6_Witness ==
    \E r \in Procs :
        /\ req[r].op = "create" /\ req[r].pc = "done"
        /\ req[r].response.status_code = 500
        /\ \E i \in DOMAIN qrcodes : qrcodes[i].telegram_id = req[r].args.telegram_id

\* The order of the lifecycle: created, then issued, then used or invalid.
Rank(status) ==
    CASE status = CREATED -> 0 [] status = ISSUED -> 1 [] OTHER -> 2

\* C7: no step moves a ticket's status to an earlier state, and none changes
\* the status of a ticket that is used or invalid.
C7_StatusOnlyAdvances ==
    [][\A i \in DOMAIN qrcodes :
          /\ Rank(qrcodes'[i].status) >= Rank(qrcodes[i].status)
          /\ qrcodes[i].status \in {USED, INVALID} =>
                qrcodes'[i].status = qrcodes[i].status]_vars

\* C8: used_at is set if and only if the status is used.
C8_UsedAtIffUsed ==
    \A i \in DOMAIN qrcodes :
        (qrcodes[i].used_at # NULL) <=> (qrcodes[i].status = USED)

\* The outcome a response reports.
Reported(response) ==
    CASE response.status_code = 404 -> "NotFound"
      [] response.status_code = 200 -> "Success"
      [] response.detail = <<"code already used">> -> "AlreadyUsed"
      [] response.status_code = 400 /\ Head(response.detail) = "invalid status"
            -> "InvalidState"
      [] OTHER -> "none"

\* The outcome the claim assigns to a ticket as loaded.
Expected(loaded) ==
    CASE loaded = <<>> -> "NotFound"
      [] loaded # <<>> /\ loaded[1].status = USED -> "AlreadyUsed"
      [] loaded # <<>> /\ loaded[1].status = ISSUED -> "Success"
      [] OTHER -> "InvalidState"

\* C9: the outcome of a check_qr attempt is determined by the ticket as
\* loaded: none gives NotFound, used gives AlreadyUsed, issued gives Success,
\* created or invalid gives InvalidState with that status in the message;
\* and the response reports the outcome of the branch taken, AlreadyUsed
\* with a response of its own.
C9_OutcomeByLoadedTicket ==
    [][\A r \in Procs :
          /\ (req[r].pc = "stats" /\ req'[r].pc # "stats") =>
                LET loaded == req[r].db_qr_code
                    branch == IF req'[r].pc = "done"
                              THEN Reported(req'[r].response)
                              ELSE req'[r].outcome
                IN  /\ branch = Expected(loaded)
                    /\ (req'[r].pc = "update") <=> (branch = "Success")
          /\ (req[r].op = "redeem" /\ InFlight(r) /\ req'[r].pc = "done") =>
                LET branch == IF req[r].pc = "stats"
                              THEN Expected(req[r].db_qr_code)
                              ELSE req[r].outcome
                IN  /\ Reported(req'[r].response) = branch
                    /\ branch = "InvalidState" =>
                          /\ req[r].db_qr_code[1].status \in {CREATED, INVALID}
                          /\ req'[r].response.detail =
                                <<"invalid status", req[r].db_qr_code[1].status>>]_vars

\* C9's case: one attempt was answered "code not found" and another, on a
\* ticket loaded as invalid, "invalid status: invalid".
C9_Witness ==
    \E r1, r2 \in Procs :
        /\ ObservedNotFound(r1)
        /\ ObservedInvalidState(r2)
        /\ req[r2].response.detail = <<"invalid status", INVALID>>
        /\ qrcodes[req[r2].args.qr_code_id].status = INVALID

\* C10: run one after another, a check_qr on a freshly issued ticket (issued,
\* used_at unset) takes the success branch and leaves the ticket used with
\* used_at set; a check_qr on the ticket once it is used changes neither its
\* status nor its used_at (nor any other field).
C10_RedeemRoundTrip ==
    [][\A r \in Procs :
          (/\ req[r].op = "redeem" /\ InFlight(r)
           /\ req[r].args.qr_code_id \in DOMAIN qrcodes) =>
              LET i == req[r].args.qr_code_id
                  fresh == qrcodes[i].status = ISSUED /\ qrcodes[i].used_at = NULL
              IN  /\ (fresh /\ req[r].pc = "stats" /\ req'[r].pc # "stats")
                        => req'[r].pc = "update"
                  /\ (fresh /\ req[r].pc = "update" /\ req'[r].pc # "update")
                        => /\ qrcodes'[i].status = USED
                           /\ qrcodes'[i].used_at # NULL
                  /\ qrcodes[i].status = USED => qrcodes'[i] = qrcodes[i]]_vars

\* C10's case: the first check_qr of a ticket returned Success, the second
\* "already used", and the ticket is used with the used_at of the first.
C10_Witness ==
    \E r1, r2 \in Procs :
        /\ ObservedSuccess(r1) /\ ObservedAlreadyUsed(r2)
        /\ req[r1].args.qr_code_id = req[r2].args.qr_code_id
        /\ qrcodes[req[r1].args.qr_code_id].status = USED
        /\ qrcodes[req[r1].args.qr_code_id].used_at # NULL
        /\ nOps = 3

\* C11: the persisted success_count and fail_count are never negative and no
\* step lowers or resets either of them.
C11_CountersNeverDecrease ==
    [][\A k \in DOMAIN qr_stats :
          /\ qr_stats[k].success_count >= 0 /\ qr_stats[k].fail_count >= 0
          /\ k \in DOMAIN qr_stats' =>
                /\ qr_stats'[k].success_count >= qr_stats[k].success_count
                /\ qr_stats'[k].fail_count >= qr_stats[k].fail_count]_vars

\* C12: a send that Telegram refuses is recovered inside the notifier. The
\* step of check_qr that waits on it goes on exactly as the branch
\* prescribes: after the owner's message the tally (or, with no admin, the
\* response of the branch), after the admin's message the response of the
\* branch, never an error of the notifier; and the step leaves the tickets
\* and the persisted counters as they are, so the status written and the
\* counter committed before it stay.
C12_NotifierFailureRecovered ==
    [][\A r \in Procs :
          (/\ ~telegram_up
           /\ req[r].pc \in {"notify_user", "notify_admin"}
           /\ req'[r] # req[r]) =>
              /\ qrcodes' = qrcodes
              /\ qr_stats' = qr_stats
              /\ IF req[r].pc = "notify_user" /\ NamesAdmin(r)
                 THEN /\ req'[r].pc = "commit"
                      /\ req'[r].outcome = req[r].outcome
                      /\ req'[r].stats[1][ColumnOf(req[r].outcome)] =
                            req[r].stats[1][ColumnOf(req[r].outcome)] + 1
                 ELSE /\ req'[r].pc = "done"
                      /\ Reported(req'[r].response) = req[r].outcome]_vars

\* C12's case: an attempt that named an admin lost its message to the owner,
\* went on to count the success, and waits on the admin's message with the
\* ticket used and the counter committed.
C12_Witness ==
    \E r \in Procs :
        /\ req[r].pc = "notify_admin"
        /\ req[r].undelivered = 1
        /\ req[r].outcome = "Success"
        /\ ~telegram_up
        /\ qrcodes[req[r].args.qr_code_id].status = USED
        /\ qr_stats[1].success_count = 1

\* C13: issued_at and used_at are each set once: used_at is unset while the
\* ticket has never been used, and no step changes a timestamp that is set.
C13_TimestampsSetOnce ==
    [][\A i \in DOMAIN qrcodes :
          /\ qrcodes[i].issued_at # NULL =>
                qrcodes'[i].issued_at = qrcodes[i].issued_at
          /\ qrcodes[i].used_at # NULL =>
                qrcodes'[i].used_at = qrcodes[i].used_at
          /\ (qrcodes[i].used_at = NULL /\ qrcodes'[i].used_at # NULL) =>
                qrcodes'[i].status = USED]_vars

\* C14: a check_qr attempt that is rejected (no ticket loaded, or one loaded
\* as used, created or invalid) changes no ticket: only the step that writes
\* the redemption touches the table, it is taken only for a ticket loaded as
\* issued, and it creates no row and changes no row but the ticket's own.
C14_RedeemFrame ==
    [][\A r \in Procs :
          (req[r].op = "redeem" /\ req'[r] # req[r]) =>
              IF req[r].pc = "update"
              THEN /\ Expected(req[r].db_qr_code) = "Success"
                   /\ DOMAIN qrcodes' = DOMAIN qrcodes
                   /\ \A j \in DOMAIN qrcodes :
                         j # req[r].args.qr_code_id => qrcodes'[j] = qrcodes[j]
              ELSE qrcodes' = qrcodes]_vars

\* C14's case: with two tickets in the table, one attempt redeemed the first
\* and another was rejected; the second ticket is as it was issued.
C14_Witness ==
    \E r1, r2 \in Procs :
        /\ Len(qrcodes) = 2
        /\ ObservedSuccess(r1) /\ req[r1].args.qr_code_id = 1
        /\ Redeemed(r2) /\ ~ObservedSuccess(r2)
        /\ qrcodes[1].status = USED
        /\ qrcodes[2].status = ISSUED /\ qrcodes[2].used_at = NULL

\* C15: a ticket that create_qr_code inserts is, right after the insert,
\* issued, with issued_at set and used_at unset, under an id that no ticket
\* already in the table has, and it is the ticket the call returns; no step
\* of create_qr_code puts a ticket in status created.
C15_CreatedTicketIsIssued ==
    [][\A r \in Procs :
          (req[r].op = "create" /\ req'[r] # req[r]) =>
              /\ Len(qrcodes') > Len(qrcodes) =>
                    LET new == qrcodes'[Len(qrcodes')]
                    IN  /\ Len(qrcodes') = Len(qrcodes) + 1
                        /\ new.status = ISSUED
                        /\ new.issued_at # NULL
                        /\ new.used_at = NULL
                        /\ \A i \in DOMAIN qrcodes : qrcodes[i].id # new.id
                        /\ req'[r].response.id = new.id
              /\ \A i \in DOMAIN qrcodes' :
                    qrcodes'[i].status = CREATED =>
                        i \in DOMAIN qrcodes /\ qrcodes[i].status = CREATED]_vars

\* C15's case: a call has just inserted a second ticket next to an existing
\* one and holds the response that returns it.
C15_Witness ==
    \E r \in Procs :
        /\ req[r].op = "create" /\ req[r].pc = "done"
        /\ req[r].response.status_code = 200
        /\ Len(qrcodes) = 2
        /\ req[r].response.id = 2
        /\ qrcodes[2].telegram_id = req[r].args.telegram_id
        /\ qrcodes[2].status = ISSUED /\ qrcodes[2].used_at = NULL
        /\ qrcodes[2].issued_at = clock - 1

\* The persisted counters, as a message would carry them.
PersistedTotals ==
    <<[success |-> qr_stats[1].success_count, fail |-> qr_stats[1].fail_count]>>

\* C16: every check_qr attempt, whatever its outcome, has sent a notification
\* of the outcome by the time it answers, and the totals in the admin's
\* message are the persisted counters as the attempt's own increment left
\* them (requests served one after another, so that no other attempt has
\* touched the counters in between).
C16_EveryAttemptNotifies ==
    [][\A r \in Procs :
          (req[r].op = "redeem" /\ InFlight(r) /\ req'[r].pc = "done") =>
              /\ req[r].pc \in {"notify_user", "notify_admin"}
              /\ req[r].pc = "notify_admin" => req[r].message = PersistedTotals]_vars

\* Of C16, the part about the totals alone.
C16_MessageCarriesPersisted ==
    [][\A r \in Procs :
          (req[r].op = "redeem" /\ req[r].pc = "notify_admin" /\ req'[r].pc = "done")
              => req[r].message = PersistedTotals]_vars

\* C18: when the statement a check_qr attempt awaits fails (the load of the
\* ticket, the load of the counters, the status write or the counter
\* write), the attempt ends there with a server error, and the response is
\* none of NotFound, AlreadyUsed, InvalidState and Success.
C18_StoreErrorSurfaced ==
    [][\A r \in Procs :
          (/\ req[r].op = "redeem"
           /\ req[r].pc \in {"load", "stats", "update", "commit"}
           /\ ~store_up
           /\ req'[r] # req[r]) =>
              /\ req'[r].pc = "done"
              /\ req'[r].response.status_code = 500
              /\ Reported(req'[r].response) = "none"]_vars

\* C18's case: the counter write of a successful redemption failed: the
\* ticket is used, the in-process total counted it, the persisted counter
\* did not, and the caller got the server error.
C18_Witness ==
    \E r \in Procs :
        /\ Redeemed(r) /\ NamesAdmin(r)
        /\ req[r].response = ErrorResponse(500, "StoreError")
        /\ req[r].args.qr_code_id \in DOMAIN qrcodes
        /\ qrcodes[req[r].args.qr_code_id].status = USED
        /\ global_success = 1
        /\ qr_stats[1].success_count = 0

\* C17: a notification never holds back the response: whenever a send of a
\* check_qr attempt is outstanding, the attempt has already answered its
\* caller.
C17_ResponseNotBehindSend ==
    \A r \in Procs :
        (req[r].op = "redeem" /\ req[r].pc \in {"notify_user", "notify_admin"})
            => req[r].response # NoResponse

\* C19: the statistics row is a singleton created once, with both counters
\* zero: once startup has run there is exactly one row, no step adds a
\* second, the row appears as zeros, and no step (of a startup after a
\* restart, or of a check_qr attempt) puts a row that has counted something
\* back to zeros.
C19_SingletonCounters ==
    [][/\ started => Len(qr_stats) = 1
       /\ started' => Len(qr_stats') = 1
       /\ Len(qr_stats') <= 1
       /\ (Len(qr_stats) = 0 /\ Len(qr_stats') = 1) =>
             qr_stats'[1] = [success_count |-> 0, fail_count |-> 0]
       /\ Len(qr_stats) = 1 =>
             /\ Len(qr_stats') = 1
             /\ qr_stats[1] # [success_count |-> 0, fail_count |-> 0] =>
                   qr_stats'[1] # [success_count |-> 0, fail_count |-> 0]]_vars

\* C19's case: the process was restarted after a success was counted (the
\* in-process totals are back to zero, the persisted one is not), startup
\* has run again, and an attempt has been served since.
C19_Witness ==
    /\ started
    /\ qr_stats = <<[success_count |-> 1, fail_count |-> 0]>>
    /\ global_success = 0
    /\ DOMAIN admin_stats = {}
    /\ \E r \in Procs : ObservedAlreadyUsed(r)

\* The tickets whose status is used.
UsedTickets == {i \in DOMAIN qrcodes : qrcodes[i].status = USED}

\* C20: the persisted success_count never exceeds the number of tickets
\* whose status is used.
\* (stated of the runs made of one issuance and two check_qr attempts, so
\* that nothing but check_qr has written a status or a counter.)
C20_SuccessCountNeverLeads ==
    (/\ nOps = 3 /\ Len(qrcodes) = 1
     /\ \E r1, r2 \in Procs :
           r1 # r2 /\ req[r1].op = "redeem" /\ req[r2].op = "redeem") =>
        \A k \in DOMAIN qr_stats :
            qr_stats[k].success_count <= Cardinality(UsedTickets)

\* The sum over all admins of admin_stats[admin][counter]: the number of
\* pairs (admin, k) with k from 1 to the admin's count.
SumOfAdmins(counter) ==
    Cardinality({p \in (DOMAIN admin_stats) \X (1..MaxOps) :
                    p[2] <= admin_stats[p[1]][counter]})

\* C21: in one server process, global_success is the sum over the admins of
\* admin_stats[admin]['success'] and global_fail the sum of
\* admin_stats[admin]['fail'], in every state of every interleaving of the
\* handlers.
C21_TotalsAreSums ==
    /\ global_success = SumOfAdmins("success")
    /\ global_fail = SumOfAdmins("fail")
    /\ \A a \in DOMAIN admin_stats :
          admin_stats[a].success <= MaxOps /\ admin_stats[a].fail <= MaxOps

\* C21's case: two check_qr handlers of different admins are in flight, each
\* past its tally and before its commit, one having counted a success and
\* the other a failure.
C21_Witness ==
    \E r1, r2 \in Procs :
        /\ req[r1].pc = "commit" /\ req[r2].pc = "commit"
        /\ req[r1].args.admin_telegram_id # req[r2].args.admin_telegram_id
        /\ req[r1].outcome = "Success" /\ req[r2].outcome # "Success"
        /\ admin_stats[req[r1].args.admin_telegram_id].success = 1
        /\ admin_stats[req[r2].args.admin_telegram_id].fail = 1
        /\ global_success = 1 /\ global_fail = 1

\* C22: the bot gives the answer of scan or stats that is meant for admins
\* only to a user already in authorized_admins, and a user enters
\* authorized_admins only by the step that handles that user's own correct
\* password, in a dialog in which the same user gave the correct login: no
\* other update (a wrong login, a wrong password, a cancel, any command)
\* adds anyone, a user's update adds no other user, and the login and the
\* dialog of a user are changed by that user's updates alone, the login by
\* the text sent in state LOGIN, which is the only way to state PASSWORD.
C22_AdminOnlyAfterLogin ==
    [][/\ reply' \in {"scanner", "stats", "stats_error"} =>
             update'.user \in authorized_admins
       /\ \A u \in Users :
             /\ (u \in authorized_admins' /\ u \notin authorized_admins) =>
                   /\ update'.user = u
                   /\ conversation[u] = PASSWORD
                   /\ update'.text = ADMIN_PASSWORD
                   /\ user_data[u] = ADMIN_LOGIN
                   /\ reply' = "authorized"
             /\ user_data'[u] # user_data[u] =>
                   /\ update'.user = u
                   /\ conversation[u] = LOGIN
                   /\ user_data'[u] = update'.text
             /\ conversation'[u] # conversation[u] => update'.user = u
             /\ (conversation'[u] = PASSWORD /\ conversation[u] # PASSWORD) =>
                   /\ conversation[u] = LOGIN
                   /\ user_data'[u] = update'.text]_vars

\* C22's case: user 1 logged in and has just been given the scanner, while
\* user 2, whose dialogs ended with a wrong password or a cancel after the
\* correct login, is not authorized.
C22_Witness ==
    /\ authorized_admins = {1}
    /\ update = [user |-> 1, text |-> "/scan"]
    /\ reply = "scanner"
    /\ user_data[2] = ADMIN_LOGIN
    /\ conversation[2] = END

====
